---------------------------- MODULE Spec2Model ----------------------------
(***************************************************************************)
(* Model of the Polar Gosling MCP server (src/MCP/server.py): the tool     *)
(* catalog TOOLS, the dataset binding _DISPATCH, and the two request       *)
(* handlers list_tools and call_tool that the MCP framework invokes.       *)
(*                                                                         *)
(* Text is modelled byte for byte as TLA+ strings.  Python values held in  *)
(* the datasets are modelled as tagged records [type, val]; a dict keeps   *)
(* its items as a sequence of <<key, value>> pairs in insertion order.     *)
(***************************************************************************)
EXTENDS Integers, Sequences, FiniteSets, TLC

(***************************************************************************)
(* Python values                                                           *)
(***************************************************************************)
PyNone == [type |-> "NoneType", val |-> 0]

PyBool(b) == [type |-> "bool", val |-> b]

PyInt(i) == [type |-> "int", val |-> i]

PyStr(s) == [type |-> "str", val |-> s]

PyList(items) == [type |-> "list", val |-> items]

PyDict(pairs) == [type |-> "dict", val |-> pairs]

\* A value json cannot encode (a set, a class instance, ...).
PyObject(id) == [type |-> "object", val |-> id]

(***************************************************************************)
(* json.dumps(obj, indent=2), as CPython's json.encoder computes it with   *)
(* the defaults call_tool leaves in place: ensure_ascii=True,              *)
(* sort_keys=False, separators (",", ": ") because indent is not None.     *)
(***************************************************************************)
\* json.encoder.ESCAPE_DCT / encode_basestring_ascii, one character.
\* Strings of the model are printable ASCII plus the control characters
\* listed; CPython writes any other control or non-ASCII character as \uXXXX.
py_escape_char(c) ==
  CASE c = "\"" -> "\\\""
    [] c = "\\" -> "\\\\"
    [] c = "\n" -> "\\n"
    [] c = "\r" -> "\\r"
    [] c = "\t" -> "\\t"
    [] c = "\f" -> "\\f"
    [] OTHER -> c

RECURSIVE py_escape(_)
py_escape(s) ==
  IF Len(s) = 0 THEN ""
  ELSE IF Len(s) = 1 THEN py_escape_char(s)
  ELSE LET h == Len(s) \div 2
       IN py_escape(SubSeq(s, 1, h)) \o py_escape(SubSeq(s, h + 1, Len(s)))

\* An encoder that quotes a string without escaping its characters.
encode_basestring_ascii_raw(s) == "\"" \o s \o "\""

encode_basestring_ascii(s) == "\"" \o py_escape(s) \o "\""

Digit(d) == SubSeq("0123456789", d + 1, d + 1)

RECURSIVE NatRepr(_)
NatRepr(n) == IF n < 10 THEN Digit(n) ELSE NatRepr(n \div 10) \o Digit(n % 10)

\* int.__repr__
int_repr(i) == IF i < 0 THEN "-" \o NatRepr(-i) ELSE NatRepr(i)

RECURSIVE Spaces(_)
Spaces(n) == IF n = 0 THEN "" ELSE " " \o Spaces(n - 1)

\* Whether json can encode the value (otherwise json.dumps raises TypeError).
RECURSIVE serializable(_)
serializable(o) ==
  CASE o.type = "list" -> \A i \in 1..Len(o.val) : serializable(o.val[i])
    [] o.type = "dict" -> \A i \in 1..Len(o.val) : serializable(o.val[i][2])
    [] o.type = "object" -> FALSE
    [] OTHER -> TRUE

\* _make_iterencode: _iterencode, _iterencode_list, _iterencode_dict.
\* level is _current_indent_level; keys are str in every dataset.
RECURSIVE iterencode(_, _, _)
RECURSIVE iterencode_items(_, _, _, _, _)
iterencode_items(o, i, sep, indent, level) ==
  IF i > Len(o.val) THEN ""
  ELSE (IF i = 1 THEN "" ELSE sep)
       \o (IF o.type = "dict"
             THEN encode_basestring_ascii(o.val[i][1]) \o ": "
                  \o iterencode(o.val[i][2], indent, level)
             ELSE iterencode(o.val[i], indent, level))
       \o iterencode_items(o, i + 1, sep, indent, level)

iterencode(o, indent, level) ==
  CASE o.type = "str" -> encode_basestring_ascii(o.val)
    [] o.type = "NoneType" -> "null"
    [] o.type = "bool" -> (IF o.val THEN "true" ELSE "false")
    [] o.type = "int" -> int_repr(o.val)
    [] o.type = "list" ->
         IF Len(o.val) = 0 THEN "[]"
         ELSE LET newline_indent == "\n" \o Spaces(indent * (level + 1))
              IN "[" \o newline_indent
                 \o iterencode_items(o, 1, "," \o newline_indent, indent, level + 1)
                 \o "\n" \o Spaces(indent * level) \o "]"
    [] o.type = "dict" ->
         IF Len(o.val) = 0 THEN "{}"
         ELSE LET newline_indent == "\n" \o Spaces(indent * (level + 1))
              IN "{" \o newline_indent
                 \o iterencode_items(o, 1, "," \o newline_indent, indent, level + 1)
                 \o "\n" \o Spaces(indent * level) \o "}"

\* The characters dataset keys are written in, in code point order.
AsciiOrder ==
  " -./0123456789:ABCDEFGHIJKLMNOPQRSTUVWXYZ_abcdefghijklmnopqrstuvwxyz"

CharRank(c) ==
  IF \E i \in 1..Len(AsciiOrder) : SubSeq(AsciiOrder, i, i) = c
    THEN CHOOSE i \in 1..Len(AsciiOrder) : SubSeq(AsciiOrder, i, i) = c
    ELSE 0

\* str.__lt__ on ASCII strings.
RECURSIVE str_lt(_, _)
str_lt(a, b) ==
  IF Len(b) = 0 THEN FALSE
  ELSE IF Len(a) = 0 THEN TRUE
  ELSE LET ra == CharRank(SubSeq(a, 1, 1))
           rb == CharRank(SubSeq(b, 1, 1))
       IN IF ra # rb THEN ra < rb
          ELSE str_lt(SubSeq(a, 2, Len(a)), SubSeq(b, 2, Len(b)))

\* sorted(dct.items()): the items of a dict ordered by key.
RECURSIVE insert_sorted(_, _)
insert_sorted(pairs, p) ==
  IF Len(pairs) = 0 THEN <<p>>
  ELSE IF str_lt(p[1], Head(pairs)[1]) THEN <<p>> \o pairs
  ELSE <<Head(pairs)>> \o insert_sorted(Tail(pairs), p)

RECURSIVE sorted_items(_)
sorted_items(pairs) ==
  IF Len(pairs) = 0 THEN <<>>
  ELSE insert_sorted(sorted_items(Tail(pairs)), Head(pairs))

RECURSIVE with_sorted_keys(_)
with_sorted_keys(o) ==
  CASE o.type = "dict" ->
         PyDict(sorted_items([i \in 1..Len(o.val) |->
                                <<o.val[i][1], with_sorted_keys(o.val[i][2])>>]))
    [] o.type = "list" ->
         PyList([i \in 1..Len(o.val) |-> with_sorted_keys(o.val[i])])
    [] OTHER -> o

\* json.dumps(obj, indent=indent, sort_keys=True)
json_dumps_sort_keys(obj, indent) == iterencode(with_sorted_keys(obj), indent, 0)

json_dumps(obj, indent) == iterencode(obj, indent, 0)

(***************************************************************************)
(* Datasets (src/MCP/data).  Each constant is the source literal abridged: *)
(* a list keeps its first element and a dict its first three items, at     *)
(* every depth, after leaving out entries that hold a non-ASCII character  *)
(* (U+2014, U+2192), which a TLA+ string cannot hold.  Strings, numbers and *)
(* booleans that are kept are verbatim.                                    *)
(***************************************************************************)
\* data/mothergoose.py, lines 5-46 (abridged).
MOTHERGOOSE_API_ENDPOINTS ==
  PyList(<<
    PyDict(<<
      <<"method", PyStr("GET")>>,
      <<"path", PyStr("/health")>>,
      <<"description", PyStr("Service health check")>>
    >>)
  >>)

\* data/mothergoose.py, lines 48-112 (abridged).
MOTHERGOOSE_CELERY_TASKS ==
  PyList(<<
    PyDict(<<
      <<"name", PyStr("sync_nest_config")>>,
      <<"module", PyStr("tasks.git_sync")>>,
      <<"queue", PyStr("mothergoose.git_sync")>>
    >>)
  >>)

\* data/mothergoose.py, lines 114-193 (abridged).
MOTHERGOOSE_MODELS ==
  PyDict(<<
    <<"Runner", PyDict(<<
      <<"description", PyStr("Represents a deployed GitLab runner (VM or serverless container).")>>,
      <<"fields", PyDict(<<
        <<"id", PyDict(<<
          <<"type", PyStr("str")>>,
          <<"description", PyStr("Unique runner ID (UUID)")>>
        >>)>>,
        <<"egg_name", PyDict(<<
          <<"type", PyStr("str")>>,
          <<"description", PyStr("Name of the Egg that owns this runner")>>
        >>)>>,
        <<"type", PyDict(<<
          <<"type", PyStr("RunnerType")>>,
          <<"enum", PyList(<<
            PyStr("SERVERLESS")
          >>)>>,
          <<"description", PyStr("Runner deployment type")>>
        >>)>>
      >>)>>
    >>)>>,
    <<"EggConfig", PyDict(<<
      <<"description", PyStr("Parsed configuration for a single Egg or EggsBucket from the Nest repo.")>>,
      <<"fields", PyDict(<<
        <<"id", PyDict(<<
          <<"type", PyStr("str")>>,
          <<"description", PyStr("UUID")>>
        >>)>>,
        <<"name", PyDict(<<
          <<"type", PyStr("str")>>,
          <<"description", PyStr("Egg name (directory name under Eggs/)")>>
        >>)>>,
        <<"project_id", PyDict(<<
          <<"type", PyStr("int")>>,
          <<"description", PyStr("GitLab project ID (single egg)")>>
        >>)>>
      >>)>>
    >>)>>,
    <<"SyncHistory", PyDict(<<
      <<"description", PyStr("Record of a single Nest Git sync operation.")>>,
      <<"fields", PyDict(<<
        <<"id", PyDict(<<
          <<"type", PyStr("str")>>
        >>)>>,
        <<"git_commit", PyDict(<<
          <<"type", PyStr("str")>>
        >>)>>,
        <<"sync_type", PyDict(<<
          <<"type", PyStr("str")>>,
          <<"enum", PyList(<<
            PyStr("scheduled")
          >>)>>
        >>)>>
      >>)>>
    >>)>>
  >>)

\* data/mothergoose.py, lines 195-250 (abridged).
MOTHERGOOSE_SERVICES ==
  PyList(<<
    PyDict(<<
      <<"name", PyStr("GitSyncService")>>,
      <<"module", PyStr("services.git_sync_service")>>,
      <<"description", PyStr("Clones/pulls the Nest repo via GitPython, delegates .fly parsing to FlyParserService, upserts results to DB.")>>
    >>)
  >>)

\* data/mothergoose.py, lines 252-269 (abridged).
MOTHERGOOSE_ENV_VARS ==
  PyList(<<
    PyDict(<<
      <<"name", PyStr("MOTHERGOOSE_DB_BACKEND")>>,
      <<"type", PyStr("str")>>,
      <<"values", PyList(<<
        PyStr("ydb")
      >>)>>
    >>)
  >>)

\* data/uglyfox.py, lines 5-86 (abridged).
UGLYFOX_CELERY_TASKS ==
  PyList(<<
    PyDict(<<
      <<"name", PyStr("check_runner_health")>>,
      <<"module", PyStr("tasks.health")>>,
      <<"queue", PyStr("uglyfox.health")>>
    >>)
  >>)

\* data/uglyfox.py, lines 88-154 (abridged).
UGLYFOX_CONFIG_SCHEMA ==
  PyDict(<<
    <<"file_location", PyStr("Nest/UF/config.fly")>>,
    <<"top_level_block", PyStr("uglyfox")>>,
    <<"blocks", PyDict(<<
      <<"pruning", PyDict(<<
        <<"description", PyStr("Global pruning policies applied to all runners unless overridden per-egg.")>>,
        <<"attributes", PyDict(<<
          <<"max_age_hours", PyDict(<<
            <<"type", PyStr("number")>>,
            <<"description", PyStr("Maximum runner age before forced termination")>>
          >>)>>,
          <<"max_failures", PyDict(<<
            <<"type", PyStr("number")>>,
            <<"description", PyStr("Consecutive failure count before pruning")>>
          >>)>>,
          <<"idle_timeout_minutes", PyDict(<<
            <<"type", PyStr("number")>>
          >>)>>
        >>)>>
      >>)>>,
      <<"runners_condition", PyDict(<<
        <<"description", PyStr("Per-egg overrides for pruning conditions.")>>,
        <<"attributes", PyDict(<<
          <<"egg_name", PyDict(<<
            <<"type", PyStr("string")>>,
            <<"description", PyStr("Target egg name")>>
          >>)>>,
          <<"max_age_hours", PyDict(<<
            <<"type", PyStr("number")>>,
            <<"description", PyStr("Override global max_age_hours")>>
          >>)>>,
          <<"max_failures", PyDict(<<
            <<"type", PyStr("number")>>,
            <<"description", PyStr("Override global max_failures")>>
          >>)>>
        >>)>>
      >>)>>,
      <<"apex_pool", PyDict(<<
        <<"description", PyStr("Apex (active) runner pool configuration.")>>,
        <<"attributes", PyDict(<<
          <<"min_size", PyDict(<<
            <<"type", PyStr("number")>>,
            <<"description", PyStr("Minimum number of APEX runners to maintain")>>
          >>)>>,
          <<"max_size", PyDict(<<
            <<"type", PyStr("number")>>,
            <<"description", PyStr("Maximum APEX runners allowed")>>
          >>)>>,
          <<"scale_up_threshold", PyDict(<<
            <<"type", PyStr("number")>>,
            <<"description", PyStr("Job queue depth to trigger scale-up")>>
          >>)>>
        >>)>>
      >>)>>
    >>)>>
  >>)

\* data/uglyfox.py, lines 156-168 (abridged).
UGLYFOX_ENV_VARS ==
  PyList(<<
    PyDict(<<
      <<"name", PyStr("UGLYFOX_DB_BACKEND")>>,
      <<"type", PyStr("str")>>,
      <<"values", PyList(<<
        PyStr("ydb")
      >>)>>
    >>)
  >>)

\* data/gosling.py, lines 5-99 (abridged).
GOSLING_COMMANDS ==
  PyList(<<
    PyDict(<<
      <<"name", PyStr("init")>>,
      <<"usage", PyStr("gosling init [flags]")>>,
      <<"description", PyStr("Initialize a new Nest repository structure. Creates Eggs/, Jobs/, UF/, MG/ directories with starter .fly files.")>>
    >>)
  >>)

\* data/gosling.py, lines 101-212 (abridged).
FLY_LANGUAGE_REFERENCE ==
  PyDict(<<
    <<"description", PyStr(".fly is an HCL-like DSL with stronger typing used to define all Polar Gosling configuration. Parsed by the Gosling CLI.")>>,
    <<"syntax_rules", PyList(<<
      PyStr("Block syntax: block_type 'label' { ... } or block_type { ... }")
    >>)>>,
    <<"type_system", PyDict(<<
      <<"string", PyStr("Double-quoted UTF-8 string")>>,
      <<"number", PyStr("Integer or float")>>,
      <<"bool", PyStr("true or false")>>
    >>)>>
  >>)

\* data/gosling.py, lines 214-333 (abridged).
FLY_EXAMPLES ==
  PyDict(<<
    <<"egg_yandex_serverless", PyStr("\n# Eggs/my-service/config.fly\negg \"my-service\" {\n  gitlab_server         = \"https://gitlab.com\"\n  project_id            = 12345\n  gitlab_token_secret   = \"yc-lockbox://abc123def456/runner-token\"\n  gitlab_webhook_secret = \"yc-lockbox://abc123def456/webhook-secret\"\n  git_repo_url_secret   = \"yc-lockbox://abc123def456/repo-url\"\n\n  cloud_provider = \"yandex\"\n  region         = \"ru-central1\"\n  runner_type    = \"serverless\"\n\n  tags   = [\"docker\", \"linux\", \"yandex\"]\n  cpu    = 1\n  memory = \"512MB\"\n  max_concurrent_jobs = 2\n}\n")>>,
    <<"eggsbucket_aws", PyStr("\n# Eggs/platform-team/config.fly\neggsbucket \"platform-team\" {\n  gitlab_server         = \"https://gitlab.example.com\"\n  group_id              = 999\n  gitlab_token_secret   = \"aws-sm://prod/platform-runner-token/value\"\n  gitlab_webhook_secret = \"aws-sm://prod/platform-webhook-secret/value\"\n\n  cloud_provider = \"aws\"\n  region         = \"us-east-1\"\n  runner_type    = \"apex\"\n\n  tags       = [\"docker\", \"linux\", \"aws\"]\n  cpu        = 2\n  memory     = \"1GB\"\n  project_ids = [101, 102, 103]\n}\n")>>,
    <<"job_secret_rotation", PyStr("\n# Jobs/rotate-secrets.fly\njob \"rotate-secrets\" {\n  schedule       = \"0 2 * * 0\"  # Every Sunday at 2am\n  cloud_provider = \"yandex\"\n  region         = \"ru-central1\"\n  runner_image   = \"registry.example.com/tools/secret-rotator:latest\"\n  cpu            = 0.5\n  memory         = \"256MB\"\n  timeout        = \"30m\"\n\n  script = <<-EOT\n    #!/bin/bash\n    set -euo pipefail\n    python3 /app/rotate.py --all\n  EOT\n\n  secrets = [\n    \"yc-lockbox://abc123/rotation-key\",\n  ]\n}\n")>>
  >>)

\* data/compute_module.py, lines 5-53 (abridged).
COMPUTE_MODULE_VARIABLES ==
  PyDict(<<
    <<"aws", PyList(<<
      PyDict(<<
        <<"name", PyStr("create_aws_resources")>>,
        <<"type", PyStr("bool")>>,
        <<"default", PyBool(FALSE)>>
      >>)
    >>)>>,
    <<"yandex_cloud", PyList(<<
      PyDict(<<
        <<"name", PyStr("create_yc_resources")>>,
        <<"type", PyStr("bool")>>,
        <<"default", PyBool(FALSE)>>
      >>)
    >>)>>,
    <<"common", PyList(<<
      PyDict(<<
        <<"name", PyStr("gitlab_runner_token")>>,
        <<"type", PyStr("string")>>,
        <<"sensitive", PyBool(TRUE)>>
      >>)
    >>)>>
  >>)

\* data/compute_module.py, lines 55-80 (abridged).
COMPUTE_MODULE_OUTPUTS ==
  PyList(<<
    PyDict(<<
      <<"name", PyStr("hostname")>>,
      <<"type", PyStr("string")>>,
      <<"description", PyStr("Public DNS hostname of the deployed runner. For EC2: public DNS name. For YC VM: FQDN. For serverless: container endpoint URL.")>>
    >>)
  >>)

\* data/compute_module.py, lines 82-113 (abridged).
COMPUTE_MODULE_PROVIDERS ==
  PyDict(<<
    <<"required_providers", PyDict(<<
      <<"yandex", PyDict(<<
        <<"source", PyStr("yandex-cloud/yandex")>>,
        <<"version", PyStr(">= 0.170.0")>>,
        <<"description", PyStr("Yandex Cloud provider for VM and Serverless Container resources")>>
      >>)>>,
      <<"aws", PyDict(<<
        <<"source", PyStr("hashicorp/aws")>>,
        <<"version", PyStr(">= 4.66")>>,
        <<"description", PyStr("AWS provider for EC2 and ECS resources")>>
      >>)>>,
      <<"random", PyDict(<<
        <<"source", PyStr("hashicorp/random")>>,
        <<"version", PyStr(">= 3.4.3")>>,
        <<"description", PyStr("Used to generate unique resource name suffixes")>>
      >>)>>
    >>)>>,
    <<"terraform_required_version", PyStr(">= 1.3.5")>>,
    <<"opentofu_compatible", PyBool(TRUE)>>
  >>)

(***************************************************************************)
(* data/cross_cutting.py is imported by server.py but is not among the     *)
(* source files; its three datasets stand for "a pre-built, already        *)
(* serializable data value" per tool, as the tool descriptions name them.  *)
(***************************************************************************)
SECRET_URI_SCHEMES ==
  PyDict(<<
    <<"schemes", PyList(<<
      PyStr("yc-lockbox://"),
      PyStr("aws-sm://"),
      PyStr("vault://")
    >>)>>
  >>)

DATABASE_SCHEMA ==
  PyDict(<<
    <<"tables", PyList(<<
      PyStr("runners"),
      PyStr("egg_configs"),
      PyStr("sync_history"),
      PyStr("deployment_plans"),
      PyStr("audit_logs"),
      PyStr("tofu_versions"),
      PyStr("gosling_version")
    >>)>>
  >>)

ARCHITECTURE_OVERVIEW ==
  PyDict(<<
    <<"services", PyList(<<
      PyStr("MotherGoose"),
      PyStr("UglyFox"),
      PyStr("Gosling CLI"),
      PyStr("Compute Module")
    >>)>>
  >>)

(***************************************************************************)
(* src/MCP/server.py                                                       *)
(***************************************************************************)
\* mcp.types.Tool(name=..., description=..., inputSchema=...)
Tool(name, description, inputSchema) ==
  [name |-> name, description |-> description, inputSchema |-> inputSchema]

\* mcp.types.TextContent(type=..., text=...)
TextContent(type, text) == [type |-> type, text |-> text]

\* The literal bound to TOOLS when the module is imported.
TOOLS_init ==
  <<
    Tool("get_mothergoose_api_endpoints",
         "List all MotherGoose REST API endpoints with methods, paths, descriptions, and auth requirements.",
         PyDict(<<<<"type", PyStr("object")>>, <<"properties", PyDict(<<>>)>>, <<"required", PyList(<<>>)>> >>)),
    Tool("get_mothergoose_celery_tasks",
         "List all MotherGoose Celery tasks with names, queues, priorities, and descriptions.",
         PyDict(<<<<"type", PyStr("object")>>, <<"properties", PyDict(<<>>)>>, <<"required", PyList(<<>>)>> >>)),
    Tool("get_mothergoose_models",
         "Get Pydantic model schemas for Runner, EggConfig, SyncHistory, DeploymentPlan, AuditLog.",
         PyDict(<<<<"type", PyStr("object")>>, <<"properties", PyDict(<<>>)>>, <<"required", PyList(<<>>)>> >>)),
    Tool("get_mothergoose_services",
         "List all MotherGoose service classes with their responsibilities and key methods.",
         PyDict(<<<<"type", PyStr("object")>>, <<"properties", PyDict(<<>>)>>, <<"required", PyList(<<>>)>> >>)),
    Tool("get_mothergoose_env_vars",
         "Get all MOTHERGOOSE_* environment variable definitions with types and descriptions.",
         PyDict(<<<<"type", PyStr("object")>>, <<"properties", PyDict(<<>>)>>, <<"required", PyList(<<>>)>> >>)),
    Tool("get_uglyfox_celery_tasks",
         "List all UglyFox Celery tasks: health checks, pruning, lifecycle management.",
         PyDict(<<<<"type", PyStr("object")>>, <<"properties", PyDict(<<>>)>>, <<"required", PyList(<<>>)>> >>)),
    Tool("get_uglyfox_config_schema",
         "Get the UF/config.fly schema: pruning policies, runner conditions, Apex/Nadir pool rules.",
         PyDict(<<<<"type", PyStr("object")>>, <<"properties", PyDict(<<>>)>>, <<"required", PyList(<<>>)>> >>)),
    Tool("get_uglyfox_env_vars",
         "Get all UGLYFOX_* environment variable definitions with types and descriptions.",
         PyDict(<<<<"type", PyStr("object")>>, <<"properties", PyDict(<<>>)>>, <<"required", PyList(<<>>)>> >>)),
    Tool("get_gosling_commands",
         "Get all Gosling CLI commands with flags, usage patterns, and examples.",
         PyDict(<<<<"type", PyStr("object")>>, <<"properties", PyDict(<<>>)>>, <<"required", PyList(<<>>)>> >>)),
    Tool("get_fly_language_reference",
         "Get the .fly language reference: block types, attributes, type system, and validation rules.",
         PyDict(<<<<"type", PyStr("object")>>, <<"properties", PyDict(<<>>)>>, <<"required", PyList(<<>>)>> >>)),
    Tool("get_fly_examples",
         "Get example .fly files for egg, eggsbucket, job, uglyfox, and mothergoose blocks.",
         PyDict(<<<<"type", PyStr("object")>>, <<"properties", PyDict(<<>>)>>, <<"required", PyList(<<>>)>> >>)),
    Tool("get_compute_module_variables",
         "Get all Terraform/OpenTofu input variables for the Compute Module (AWS + Yandex Cloud).",
         PyDict(<<<<"type", PyStr("object")>>, <<"properties", PyDict(<<>>)>>, <<"required", PyList(<<>>)>> >>)),
    Tool("get_compute_module_outputs",
         "Get Compute Module output values: hostname, public_ip, private_ip, id.",
         PyDict(<<<<"type", PyStr("object")>>, <<"properties", PyDict(<<>>)>>, <<"required", PyList(<<>>)>> >>)),
    Tool("get_compute_module_providers",
         "Get provider version constraints for the Compute Module (yandex, aws, random).",
         PyDict(<<<<"type", PyStr("object")>>, <<"properties", PyDict(<<>>)>>, <<"required", PyList(<<>>)>> >>)),
    Tool("get_secret_uri_schemes",
         "Get secret URI scheme reference: yc-lockbox://, aws-sm://, vault:// formats and usage.",
         PyDict(<<<<"type", PyStr("object")>>, <<"properties", PyDict(<<>>)>>, <<"required", PyList(<<>>)>> >>)),
    Tool("get_database_schema",
         "Get all YDB/DynamoDB table schemas: runners, egg_configs, sync_history, deployment_plans, audit_logs, tofu_versions, gosling_version.",
         PyDict(<<<<"type", PyStr("object")>>, <<"properties", PyDict(<<>>)>>, <<"required", PyList(<<>>)>> >>)),
    Tool("get_architecture_overview",
         "Get a high-level architecture overview: system flow, services, deployment mechanisms, cloud targets.",
         PyDict(<<<<"type", PyStr("object")>>, <<"properties", PyDict(<<>>)>>, <<"required", PyList(<<>>)>> >>))
  >>

\* The literal bound to _DISPATCH when the module is imported.
DISPATCH_init ==
  ("get_mothergoose_api_endpoints" :> MOTHERGOOSE_API_ENDPOINTS) @@
  ("get_mothergoose_celery_tasks" :> MOTHERGOOSE_CELERY_TASKS) @@
  ("get_mothergoose_models" :> MOTHERGOOSE_MODELS) @@
  ("get_mothergoose_services" :> MOTHERGOOSE_SERVICES) @@
  ("get_mothergoose_env_vars" :> MOTHERGOOSE_ENV_VARS) @@
  ("get_uglyfox_celery_tasks" :> UGLYFOX_CELERY_TASKS) @@
  ("get_uglyfox_config_schema" :> UGLYFOX_CONFIG_SCHEMA) @@
  ("get_uglyfox_env_vars" :> UGLYFOX_ENV_VARS) @@
  ("get_gosling_commands" :> GOSLING_COMMANDS) @@
  ("get_fly_language_reference" :> FLY_LANGUAGE_REFERENCE) @@
  ("get_fly_examples" :> FLY_EXAMPLES) @@
  ("get_compute_module_variables" :> COMPUTE_MODULE_VARIABLES) @@
  ("get_compute_module_outputs" :> COMPUTE_MODULE_OUTPUTS) @@
  ("get_compute_module_providers" :> COMPUTE_MODULE_PROVIDERS) @@
  ("get_secret_uri_schemes" :> SECRET_URI_SCHEMES) @@
  ("get_database_schema" :> DATABASE_SCHEMA) @@
  ("get_architecture_overview" :> ARCHITECTURE_OVERVIEW)

(***************************************************************************)
(* State.  TOOLS and _DISPATCH are the module globals (a Python list and   *)
(* dict, both mutable objects).  log is the history of handler calls made  *)
(* by the framework: one entry per request, with what the handler gave     *)
(* back.                                                                   *)
(***************************************************************************)
VARIABLES TOOLS, _DISPATCH, log

vars == <<TOOLS, _DISPATCH, log>>

\* Bound on the number of requests handled in one run.
MaxRequests == 3

\* Bound on the number of those requests that are tools/call requests.
MaxCalls == 2

\* The entries of log made by call_tool / by list_tools.
CallEntries == {i \in 1..Len(log) : log[i].method = "call_tool"}

ListEntries == {i \in 1..Len(log) : log[i].method = "list_tools"}

\* Names the declared tools are advertised under.
CatalogNames == {TOOLS_init[i].name : i \in 1..Len(TOOLS_init)}

\* Names no tool is declared under.
UnknownNames == {"missing", "ping", ""}

\* The name parameter of call_tool ranges over these.
Names == CatalogNames \cup UnknownNames

\* The arguments parameter of call_tool ranges over these.
Arguments == {PyDict(<<>>), PyDict(<< <<"verbose", PyBool(TRUE)>> >>)}

\* A handler returned v / raised exception e.
Return(v) == [kind |-> "return", value |-> v, exc |-> ""]

Raise(e) == [kind |-> "raise", value |-> <<>>, exc |-> e]

\* dict.get(key): the bound value, or None when the key is absent.
dict_get(d, key) == IF key \in DOMAIN d THEN d[key] ELSE PyNone

\* Pagination: only the first page of the catalog is handed out.
list_tools_first_page == Return(SubSeq(TOOLS, 1, 10))

\* async def list_tools() -> list[Tool]
list_tools == Return(TOOLS)

\* Subscripting instead of .get(): an unbound name raises KeyError.
call_tool_subscript(name, arguments) ==
  IF name \notin DOMAIN _DISPATCH THEN Raise("KeyError")
  ELSE Return(<<TextContent("text", json_dumps(_DISPATCH[name], 2))>>)

\* A lookup that resolves one tool to its neighbour's dataset.
call_tool_wrong_binding(name, arguments) ==
  LET data == dict_get(_DISPATCH,
                       IF name = "get_uglyfox_env_vars"
                         THEN "get_mothergoose_env_vars" ELSE name)
  IN IF data.type = "NoneType"
       THEN Return(<<TextContent("text", "Unknown tool: " \o name)>>)
       ELSE Return(<<TextContent("text", json_dumps(data, 2))>>)

\* A lookup that also requires the name to be advertised in TOOLS.
call_tool_checks_catalog(name, arguments) ==
  LET data == IF name \in {TOOLS[i].name : i \in 1..Len(TOOLS)}
                THEN dict_get(_DISPATCH, name) ELSE PyNone
  IN IF data.type = "NoneType"
       THEN Return(<<TextContent("text", "Unknown tool: " \o name)>>)
       ELSE IF ~serializable(data)
         THEN Raise("TypeError")
         ELSE Return(<<TextContent("text", json_dumps(data, 2))>>)

\* An unknown name answered with an empty content list instead of a diagnostic.
call_tool_empty_on_unknown(name, arguments) ==
  LET data == dict_get(_DISPATCH, name)
  IN IF data.type = "NoneType"
       THEN Return(<<>>)
       ELSE IF ~serializable(data)
         THEN Raise("TypeError")
         ELSE Return(<<TextContent("text", json_dumps(data, 2))>>)

\* bool(data) of the values the model holds.
falsy(o) ==
  CASE o.type = "NoneType" -> TRUE
    [] o.type = "bool" -> ~o.val
    [] o.type = "int" -> o.val = 0
    [] o.type \in {"str", "list", "dict"} -> Len(o.val) = 0
    [] OTHER -> FALSE

\* A truthiness test (if not data) in place of the identity test with None.
call_tool_falsy(name, arguments) ==
  LET data == dict_get(_DISPATCH, name)
  IN IF falsy(data)
       THEN Return(<<TextContent("text", "Unknown tool: " \o name)>>)
       ELSE IF ~serializable(data)
         THEN Raise("TypeError")
         ELSE Return(<<TextContent("text", json_dumps(data, 2))>>)

\* A dataset that is already a string is passed through unserialized.
call_tool_str_passthrough(name, arguments) ==
  LET data == dict_get(_DISPATCH, name)
  IN IF data.type = "NoneType"
       THEN Return(<<TextContent("text", "Unknown tool: " \o name)>>)
       ELSE IF ~serializable(data)
         THEN Raise("TypeError")
         ELSE IF data.type = "str"
           THEN Return(<<TextContent("text", data.val)>>)
           ELSE Return(<<TextContent("text", json_dumps(data, 2))>>)

\* A handler that validates its input: arguments that are not empty are refused.
call_tool_rejects_arguments(name, arguments) ==
  LET data == dict_get(_DISPATCH, name)
  IN IF Len(arguments.val) > 0
       THEN Return(<<TextContent("text", "Unexpected arguments for " \o name)>>)
       ELSE IF data.type = "NoneType"
         THEN Return(<<TextContent("text", "Unknown tool: " \o name)>>)
         ELSE IF ~serializable(data)
           THEN Raise("TypeError")
           ELSE Return(<<TextContent("text", json_dumps(data, 2))>>)

\* async def call_tool(name, arguments) -> list[TextContent]
call_tool(name, arguments) ==
  LET data == dict_get(_DISPATCH, name)
  IN IF data.type = "NoneType"
       THEN Return(<<TextContent("text", "Unknown tool: " \o name)>>)
       ELSE IF ~serializable(data)
         THEN Raise("TypeError")
         ELSE Return(<<TextContent("text", json_dumps(data, 2))>>)

\* A binding that drifted from the catalog: one advertised tool was never bound.
Init_drift ==
  /\ TOOLS = TOOLS_init
  /\ _DISPATCH = [n \in DOMAIN DISPATCH_init \ {"get_fly_examples"} |->
                    DISPATCH_init[n]]
  /\ log = <<>>

\* A catalog in which a descriptor was pasted under its neighbour's name.
Init_dup ==
  /\ TOOLS = [TOOLS_init EXCEPT ![2].name = TOOLS_init[1].name]
  /\ _DISPATCH = DISPATCH_init
  /\ log = <<>>

\* A catalog in which one descriptor declares a required argument.
Init_schema ==
  /\ TOOLS = [TOOLS_init EXCEPT ![11].inputSchema =
               PyDict(<< <<"type", PyStr("object")>>,
                         <<"properties",
                           PyDict(<< <<"topic",
                                       PyDict(<< <<"type", PyStr("string")>> >>)>> >>)>>,
                         <<"required", PyList(<<PyStr("topic")>>)>> >>)]
  /\ _DISPATCH = DISPATCH_init
  /\ log = <<>>

\* Module import: TOOLS and _DISPATCH are bound, no request was handled yet.
Init ==
  /\ TOOLS = TOOLS_init
  /\ _DISPATCH = DISPATCH_init
  /\ log = <<>>

\* A handler that reverses the catalog in place before returning it
\* (TOOLS.reverse(); return TOOLS).
ListTools_reverse ==
  /\ Len(log) < MaxRequests
  /\ TOOLS' = [i \in 1..Len(TOOLS) |-> TOOLS[Len(TOOLS) + 1 - i]]
  /\ log' = Append(log, [method |-> "list_tools", name |-> "",
                         outcome |-> Return(TOOLS')])
  /\ UNCHANGED _DISPATCH

\* The framework handles a tools/list request with list_tools.
ListTools ==
  /\ Len(log) < MaxRequests
  /\ log' = Append(log, [method |-> "list_tools", name |-> "",
                         outcome |-> list_tools])
  /\ UNCHANGED <<TOOLS, _DISPATCH>>

\* A handler that consumes the binding it serves (dict.pop instead of dict.get).
CallTool_pop ==
  /\ Len(log) < MaxRequests
  /\ Cardinality(CallEntries) < MaxCalls
  /\ \E name \in Names, arguments \in Arguments :
       /\ log' = Append(log, [method |-> "call_tool", name |-> name,
                              outcome |-> call_tool(name, arguments)])
       /\ _DISPATCH' = [n \in DOMAIN _DISPATCH \ {name} |-> _DISPATCH[n]]
       /\ UNCHANGED TOOLS

\* The framework handles a tools/call request with call_tool.
CallTool ==
  /\ Len(log) < MaxRequests
  /\ Cardinality(CallEntries) < MaxCalls
  /\ \E name \in Names, arguments \in Arguments :
       /\ log' = Append(log, [method |-> "call_tool", name |-> name,
                              outcome |-> call_tool(name, arguments)])
       /\ UNCHANGED <<TOOLS, _DISPATCH>>

Next == ListTools \/ CallTool

Spec == Init /\ [][Next]_vars

(***************************************************************************)
(* The same server built from other static configuration: the two literals *)
(* TOOLS and _DISPATCH are the only configuration server.py has, and the   *)
(* handlers read whatever they hold.                                       *)
(***************************************************************************)
PingTool ==
  Tool("ping", "Liveness probe.",
       PyDict(<<<<"type", PyStr("object")>>, <<"properties", PyDict(<<>>)>>,
                <<"required", PyList(<<>>)>> >>))

PingData == PyDict(<< <<"ok", PyBool(TRUE)>> >>)

\* Catalog and binding pairs: in step; a descriptor declared without a
\* binding; a binding left under a name that is no longer declared.
Configs ==
  { [tools |-> <<PingTool>>,
     dispatch |-> ("ping" :> PingData)],
    [tools |-> <<PingTool, TOOLS_init[11]>>,
     dispatch |-> ("ping" :> PingData)],
    [tools |-> <<PingTool>>,
     dispatch |-> ("ping" :> PingData) @@ ("get_fly_examples" :> FLY_EXAMPLES)] }

InitConfig ==
  \E c \in Configs :
    /\ TOOLS = c.tools
    /\ _DISPATCH = c.dispatch
    /\ log = <<>>

SpecConfig == InitConfig /\ [][Next]_vars

(***************************************************************************)
(* The same server over data modules that export other values: names are   *)
(* bound to empty and false values, to None, to a string that reads like   *)
(* the diagnostic, and to one mapping written in two key orders.           *)
(***************************************************************************)
DISPATCH_values ==
  ("get_mothergoose_services" :> PyList(<<>>))
  @@ ("get_mothergoose_env_vars" :> PyDict(<<>>))
  @@ ("get_gosling_commands" :> PyStr(""))
  @@ ("get_database_schema" :> PyInt(0))
  @@ ("get_architecture_overview" :> PyBool(FALSE))
  @@ ("get_fly_examples" :> PyNone)
  @@ ("get_uglyfox_env_vars" :> PyStr("Unknown tool: get_uglyfox_env_vars"))
  @@ ("get_secret_uri_schemes" :> PyStr("Unknown tool: x"))
  @@ ("get_compute_module_outputs" :>
        PyDict(<< <<"name", PyStr("vpc")>>, <<"cidr", PyInt(10)>> >>))
  @@ ("get_compute_module_providers" :>
        PyDict(<< <<"cidr", PyInt(10)>>, <<"name", PyStr("vpc")>> >>))

InitValues ==
  /\ TOOLS = TOOLS_init
  /\ _DISPATCH = DISPATCH_values
  /\ log = <<>>

SpecValues == InitValues /\ [][Next]_vars

(***************************************************************************)
(* The shipped server with the arguments of each tools/call request kept   *)
(* in its log entry, called under a few names with several argument        *)
(* mappings.                                                               *)
(***************************************************************************)
\* Names called in this specification: two bound tools and an unknown name.
ArgNames == {"get_uglyfox_env_vars", "get_fly_examples", "missing"}

\* Argument mappings a request may carry: none, a flag, and a mapping that
\* names another tool.
ArgumentMappings ==
  Arguments \cup {PyDict(<< <<"name", PyStr("get_fly_examples")>> >>)}

\* The framework handles a tools/call request that carries arguments.
CallToolWith ==
  /\ Len(log) < MaxRequests
  /\ Cardinality(CallEntries) < MaxCalls
  /\ \E name \in ArgNames, arguments \in ArgumentMappings :
       /\ log' = Append(log, [method |-> "call_tool", name |-> name,
                              arguments |-> arguments,
                              outcome |-> call_tool(name, arguments)])
       /\ UNCHANGED <<TOOLS, _DISPATCH>>

NextArgs == ListTools \/ CallToolWith

SpecArgs == Init /\ [][NextArgs]_vars

(***************************************************************************)
(* The catalog as a Python object.  The list literal of line 42 creates    *)
(* one list object and binds the global TOOLS to it; the variable TOOLS    *)
(* holds that object's items.  A value handed out by list_tools is a       *)
(* reference: to that object, or to a list object of its own with its own  *)
(* items.  The caller that received a list may call its methods.           *)
(***************************************************************************)
\* Bound on the number of steps (requests and caller operations) in one run.
MaxSteps == 5

\* The list object the global TOOLS is bound to.
CatalogObject == [obj |-> "TOOLS", items |-> <<>>]

\* The items of the list a reference leads to.
Deref(r) == IF r.obj = "TOOLS" THEN TOOLS ELSE r.items

\* list.pop(), list.reverse(), list.clear()
ListOps == {"pop", "reverse", "clear"}

list_apply(op, items) ==
  CASE op = "pop" -> SubSeq(items, 1, Len(items) - 1)
    [] op = "reverse" -> [k \in 1..Len(items) |-> items[Len(items) + 1 - k]]
    [] op = "clear" -> <<>>

\* A handler that hands out a copy (return list(TOOLS)).
list_tools_copy == Return([obj |-> "copy", items |-> TOOLS])

\* return TOOLS: the object itself is returned.
list_tools_ref == Return(CatalogObject)

ListToolsRef ==
  /\ Len(log) < MaxSteps
  /\ log' = Append(log, [method |-> "list_tools", name |-> "",
                         outcome |-> list_tools_ref])
  /\ UNCHANGED <<TOOLS, _DISPATCH>>

\* The caller calls a mutating method on a list it got from list_tools
\* (pop needs an item to remove, else it raises and changes nothing).
CallerMutates ==
  /\ Len(log) < MaxSteps
  /\ \E i \in ListEntries, op \in ListOps :
       LET r == log[i].outcome.value
           entry == [method |-> "mutate", name |-> op, outcome |-> Return(<<>>)]
       IN /\ op = "pop" => Len(Deref(r)) > 0
          /\ IF r.obj = "TOOLS"
               THEN /\ TOOLS' = list_apply(op, TOOLS)
                    /\ log' = Append(log, entry)
               ELSE /\ TOOLS' = TOOLS
                    /\ log' = Append([log EXCEPT ![i].outcome.value.items =
                                                  list_apply(op, @)], entry)
  /\ UNCHANGED _DISPATCH

NextAlias == ListToolsRef \/ CallerMutates

SpecAlias == Init /\ [][NextAlias]_vars

(***************************************************************************)
(* Several server instances in one process: each is a run of app over its  *)
(* own streams, all share the module globals TOOLS and _DISPATCH.  Here an *)
(* entry of log carries the instance that handled the request, and a       *)
(* call_tool is two steps (the lookup at line 165, then lines 166-168) so  *)
(* that instances on different threads may interleave inside a call.       *)
(***************************************************************************)
\* Bound on the number of instances.
NumInstances == 2

Instances == 1..NumInstances

\* The names the instances call.
SharedNames == {"get_mothergoose_api_endpoints", "get_uglyfox_env_vars", "missing"}

\* The outcome of a call whose handler has not returned yet.
Pending == [kind |-> "pending", value |-> <<>>, exc |-> ""]

\* Lines 166-168 of call_tool, on the value the lookup gave.
call_tool_return(name, data) ==
  IF data.type = "NoneType"
    THEN Return(<<TextContent("text", "Unknown tool: " \o name)>>)
    ELSE IF ~serializable(data)
      THEN Raise("TypeError")
      ELSE Return(<<TextContent("text", json_dumps(data, 2))>>)

\* Instance k handles a tools/list request.
ListToolsAt(k) ==
  /\ Len(log) < MaxRequests
  /\ log' = Append(log, [inst |-> k, method |-> "list_tools", name |-> "",
                         data |-> PyNone, outcome |-> list_tools])
  /\ UNCHANGED <<TOOLS, _DISPATCH>>

\* A lookup that takes the dataset out of the shared binding
\* (_DISPATCH.pop(name, None)).
CallToolGetAt_pop(k) ==
  /\ Len(log) < MaxRequests
  /\ Cardinality(CallEntries) < MaxCalls
  /\ \E name \in SharedNames :
       /\ log' = Append(log, [inst |-> k, method |-> "call_tool", name |-> name,
                              data |-> dict_get(_DISPATCH, name),
                              outcome |-> Pending])
       /\ _DISPATCH' = [n \in DOMAIN _DISPATCH \ {name} |-> _DISPATCH[n]]
       /\ UNCHANGED TOOLS

\* Instance k starts a tools/call request: data = _DISPATCH.get(name).
CallToolGetAt(k) ==
  /\ Len(log) < MaxRequests
  /\ Cardinality(CallEntries) < MaxCalls
  /\ \E name \in SharedNames :
       /\ log' = Append(log, [inst |-> k, method |-> "call_tool", name |-> name,
                              data |-> dict_get(_DISPATCH, name),
                              outcome |-> Pending])
       /\ UNCHANGED <<TOOLS, _DISPATCH>>

\* The call of entry i returns: the None test and the serialization.
CallToolReturnAt(i) ==
  /\ log[i].outcome = Pending
  /\ log' = [log EXCEPT ![i].outcome = call_tool_return(log[i].name, log[i].data)]
  /\ UNCHANGED <<TOOLS, _DISPATCH>>

NextMulti ==
  \/ \E k \in Instances : ListToolsAt(k)
  \/ \E k \in Instances : CallToolGetAt(k)
  \/ \E i \in 1..Len(log) : CallToolReturnAt(i)

SpecMulti == Init /\ [][NextMulti]_vars

(***************************************************************************)
(* Properties                                                              *)
(***************************************************************************)
\* The text of a handler outcome that returned one content block.
TextOf(outcome) == outcome.value[1].text

\* What CPython's json.dumps(d, indent=2) prints for each bound dataset d.
ExpectedText ==
  ("get_mothergoose_api_endpoints" :>
     "[\n  {\n    \"method\": \"GET\",\n    \"path\": \"/health\",\n    \"description\": \"Service health check\"\n  }\n]") @@
  ("get_mothergoose_celery_tasks" :>
     "[\n  {\n    \"name\": \"sync_nest_config\",\n    \"module\": \"tasks.git_sync\",\n    \"queue\": \"mothergoose.git_sync\"\n  }\n]") @@
  ("get_mothergoose_models" :>
     "{\n  \"Runner\": {\n    \"description\": \"Represents a deployed GitLab runner (VM or serverless container).\",\n    \"fields\": {\n      \"id\": {\n        \"type\": \"str\",\n        \"description\": \"Unique runner ID (UUID)\"\n      },\n      \"egg_name\": {\n        \"type\": \"str\",\n        \"description\": \"Name of the Egg that owns this runner\"\n      },\n      \"type\": {\n        \"type\": \"RunnerType\",\n        \"enum\": [\n          \"SERVERLESS\"\n        ],\n        \"description\": \"Runner deployment type\"\n      }\n    }\n  },\n  \"EggConfig\": {\n    \"description\": \"Parsed configuration for a single Egg or EggsBucket from the Nest repo.\",\n    \"fields\": {\n      \"id\": {\n        \"type\": \"str\",\n        \"description\": \"UUID\"\n      },\n      \"name\": {\n        \"type\": \"str\",\n        \"description\": \"Egg name (directory name under Eggs/)\"\n      },\n      \"project_id\": {\n        \"type\": \"int\",\n        \"description\": \"GitLab project ID (single egg)\"\n      }\n    }\n  },\n  \"SyncHistory\": {\n    \"description\": \"Record of a single Nest Git sync operation.\",\n    \"fields\": {\n      \"id\": {\n        \"type\": \"str\"\n      },\n      \"git_commit\": {\n        \"type\": \"str\"\n      },\n      \"sync_type\": {\n        \"type\": \"str\",\n        \"enum\": [\n          \"scheduled\"\n        ]\n      }\n    }\n  }\n}") @@
  ("get_mothergoose_services" :>
     "[\n  {\n    \"name\": \"GitSyncService\",\n    \"module\": \"services.git_sync_service\",\n    \"description\": \"Clones/pulls the Nest repo via GitPython, delegates .fly parsing to FlyParserService, upserts results to DB.\"\n  }\n]") @@
  ("get_mothergoose_env_vars" :>
     "[\n  {\n    \"name\": \"MOTHERGOOSE_DB_BACKEND\",\n    \"type\": \"str\",\n    \"values\": [\n      \"ydb\"\n    ]\n  }\n]") @@
  ("get_uglyfox_celery_tasks" :>
     "[\n  {\n    \"name\": \"check_runner_health\",\n    \"module\": \"tasks.health\",\n    \"queue\": \"uglyfox.health\"\n  }\n]") @@
  ("get_uglyfox_config_schema" :>
     "{\n  \"file_location\": \"Nest/UF/config.fly\",\n  \"top_level_block\": \"uglyfox\",\n  \"blocks\": {\n    \"pruning\": {\n      \"description\": \"Global pruning policies applied to all runners unless overridden per-egg.\",\n      \"attributes\": {\n        \"max_age_hours\": {\n          \"type\": \"number\",\n          \"description\": \"Maximum runner age before forced termination\"\n        },\n        \"max_failures\": {\n          \"type\": \"number\",\n          \"description\": \"Consecutive failure count before pruning\"\n        },\n        \"idle_timeout_minutes\": {\n          \"type\": \"number\"\n        }\n      }\n    },\n    \"runners_condition\": {\n      \"description\": \"Per-egg overrides for pruning conditions.\",\n      \"attributes\": {\n        \"egg_name\": {\n          \"type\": \"string\",\n          \"description\": \"Target egg name\"\n        },\n        \"max_age_hours\": {\n          \"type\": \"number\",\n          \"description\": \"Override global max_age_hours\"\n        },\n        \"max_failures\": {\n          \"type\": \"number\",\n          \"description\": \"Override global max_failures\"\n        }\n      }\n    },\n    \"apex_pool\": {\n      \"description\": \"Apex (active) runner pool configuration.\",\n      \"attributes\": {\n        \"min_size\": {\n          \"type\": \"number\",\n          \"description\": \"Minimum number of APEX runners to maintain\"\n        },\n        \"max_size\": {\n          \"type\": \"number\",\n          \"description\": \"Maximum APEX runners allowed\"\n        },\n        \"scale_up_threshold\": {\n          \"type\": \"number\",\n          \"description\": \"Job queue depth to trigger scale-up\"\n        }\n      }\n    }\n  }\n}") @@
  ("get_uglyfox_env_vars" :>
     "[\n  {\n    \"name\": \"UGLYFOX_DB_BACKEND\",\n    \"type\": \"str\",\n    \"values\": [\n      \"ydb\"\n    ]\n  }\n]") @@
  ("get_gosling_commands" :>
     "[\n  {\n    \"name\": \"init\",\n    \"usage\": \"gosling init [flags]\",\n    \"description\": \"Initialize a new Nest repository structure. Creates Eggs/, Jobs/, UF/, MG/ directories with starter .fly files.\"\n  }\n]") @@
  ("get_fly_language_reference" :>
     "{\n  \"description\": \".fly is an HCL-like DSL with stronger typing used to define all Polar Gosling configuration. Parsed by the Gosling CLI.\",\n  \"syntax_rules\": [\n    \"Block syntax: block_type 'label' { ... } or block_type { ... }\"\n  ],\n  \"type_system\": {\n    \"string\": \"Double-quoted UTF-8 string\",\n    \"number\": \"Integer or float\",\n    \"bool\": \"true or false\"\n  }\n}") @@
  ("get_fly_examples" :>
     "{\n  \"egg_yandex_serverless\": \"\\n# Eggs/my-service/config.fly\\negg \\\"my-service\\\" {\\n  gitlab_server         = \\\"https://gitlab.com\\\"\\n  project_id            = 12345\\n  gitlab_token_secret   = \\\"yc-lockbox://abc123def456/runner-token\\\"\\n  gitlab_webhook_secret = \\\"yc-lockbox://abc123def456/webhook-secret\\\"\\n  git_repo_url_secret   = \\\"yc-lockbox://abc123def456/repo-url\\\"\\n\\n  cloud_provider = \\\"yandex\\\"\\n  region         = \\\"ru-central1\\\"\\n  runner_type    = \\\"serverless\\\"\\n\\n  tags   = [\\\"docker\\\", \\\"linux\\\", \\\"yandex\\\"]\\n  cpu    = 1\\n  memory = \\\"512MB\\\"\\n  max_concurrent_jobs = 2\\n}\\n\",\n  \"eggsbucket_aws\": \"\\n# Eggs/platform-team/config.fly\\neggsbucket \\\"platform-team\\\" {\\n  gitlab_server         = \\\"https://gitlab.example.com\\\"\\n  group_id              = 999\\n  gitlab_token_secret   = \\\"aws-sm://prod/platform-runner-token/value\\\"\\n  gitlab_webhook_secret = \\\"aws-sm://prod/platform-webhook-secret/value\\\"\\n\\n  cloud_provider = \\\"aws\\\"\\n  region         = \\\"us-east-1\\\"\\n  runner_type    = \\\"apex\\\"\\n\\n  tags       = [\\\"docker\\\", \\\"linux\\\", \\\"aws\\\"]\\n  cpu        = 2\\n  memory     = \\\"1GB\\\"\\n  project_ids = [101, 102, 103]\\n}\\n\",\n  \"job_secret_rotation\": \"\\n# Jobs/rotate-secrets.fly\\njob \\\"rotate-secrets\\\" {\\n  schedule       = \\\"0 2 * * 0\\\"  # Every Sunday at 2am\\n  cloud_provider = \\\"yandex\\\"\\n  region         = \\\"ru-central1\\\"\\n  runner_image   = \\\"registry.example.com/tools/secret-rotator:latest\\\"\\n  cpu            = 0.5\\n  memory         = \\\"256MB\\\"\\n  timeout        = \\\"30m\\\"\\n\\n  script = <<-EOT\\n    #!/bin/bash\\n    set -euo pipefail\\n    python3 /app/rotate.py --all\\n  EOT\\n\\n  secrets = [\\n    \\\"yc-lockbox://abc123/rotation-key\\\",\\n  ]\\n}\\n\"\n}") @@
  ("get_compute_module_variables" :>
     "{\n  \"aws\": [\n    {\n      \"name\": \"create_aws_resources\",\n      \"type\": \"bool\",\n      \"default\": false\n    }\n  ],\n  \"yandex_cloud\": [\n    {\n      \"name\": \"create_yc_resources\",\n      \"type\": \"bool\",\n      \"default\": false\n    }\n  ],\n  \"common\": [\n    {\n      \"name\": \"gitlab_runner_token\",\n      \"type\": \"string\",\n      \"sensitive\": true\n    }\n  ]\n}") @@
  ("get_compute_module_outputs" :>
     "[\n  {\n    \"name\": \"hostname\",\n    \"type\": \"string\",\n    \"description\": \"Public DNS hostname of the deployed runner. For EC2: public DNS name. For YC VM: FQDN. For serverless: container endpoint URL.\"\n  }\n]") @@
  ("get_compute_module_providers" :>
     "{\n  \"required_providers\": {\n    \"yandex\": {\n      \"source\": \"yandex-cloud/yandex\",\n      \"version\": \">= 0.170.0\",\n      \"description\": \"Yandex Cloud provider for VM and Serverless Container resources\"\n    },\n    \"aws\": {\n      \"source\": \"hashicorp/aws\",\n      \"version\": \">= 4.66\",\n      \"description\": \"AWS provider for EC2 and ECS resources\"\n    },\n    \"random\": {\n      \"source\": \"hashicorp/random\",\n      \"version\": \">= 3.4.3\",\n      \"description\": \"Used to generate unique resource name suffixes\"\n    }\n  },\n  \"terraform_required_version\": \">= 1.3.5\",\n  \"opentofu_compatible\": true\n}") @@
  ("get_secret_uri_schemes" :>
     "{\n  \"schemes\": [\n    \"yc-lockbox://\",\n    \"aws-sm://\",\n    \"vault://\"\n  ]\n}") @@
  ("get_database_schema" :>
     "{\n  \"tables\": [\n    \"runners\",\n    \"egg_configs\",\n    \"sync_history\",\n    \"deployment_plans\",\n    \"audit_logs\",\n    \"tofu_versions\",\n    \"gosling_version\"\n  ]\n}") @@
  ("get_architecture_overview" :>
     "{\n  \"services\": [\n    \"MotherGoose\",\n    \"UglyFox\",\n    \"Gosling CLI\",\n    \"Compute Module\"\n  ]\n}")

\* C1: for every name in the catalog with a bound dataset, call_tool returns
\* normally, and its text is json.dumps(indent=2) of the dataset bound to that
\* name and of no other tool's dataset.
C1_CallToolSerializesBoundDataset ==
  \A i \in CallEntries :
    LET e == log[i]
    IN (e.name \in CatalogNames /\ e.name \in DOMAIN DISPATCH_init) =>
         /\ e.outcome.kind = "return"
         /\ Len(e.outcome.value) = 1
         /\ TextOf(e.outcome) = ExpectedText[e.name]
         /\ \A m \in DOMAIN ExpectedText \ {e.name} :
              TextOf(e.outcome) # ExpectedText[m]

C1_Witness ==
  \E i \in CallEntries :
    /\ log[i].name = "get_uglyfox_env_vars"
    /\ log[i].outcome.kind = "return"
    /\ TextOf(log[i].outcome) = ExpectedText["get_uglyfox_env_vars"]

\* C2: for every name that is not in the catalog, call_tool returns normally
\* (it does not raise) one text block that is exactly "Unknown tool: "
\* followed by the name.
C2_UnknownToolDiagnostic ==
  \A i \in CallEntries :
    LET e == log[i]
    IN e.name \notin CatalogNames =>
         /\ e.outcome.kind = "return"
         /\ Len(e.outcome.value) = 1
         /\ e.outcome.value[1].type = "text"
         /\ Len(TextOf(e.outcome)) = 14 + Len(e.name)
         /\ SubSeq(TextOf(e.outcome), 1, 14) = "Unknown tool: "
         /\ SubSeq(TextOf(e.outcome), 15, Len(TextOf(e.outcome))) = e.name

C2_Witness ==
  \E i \in CallEntries :
    /\ log[i].name = "missing"
    /\ TextOf(log[i].outcome) = "Unknown tool: missing"

\* C3: after any sequence of list_tools and call_tool requests, list_tools
\* returns every declared descriptor exactly once, in declaration order,
\* unfiltered, the same as a list_tools issued as the first request.
C3_ListToolsReturnsWholeCatalog ==
  \A i \in ListEntries :
    LET r == log[i].outcome
    IN /\ r.kind = "return"
       /\ r.value = TOOLS_init
       /\ Len(r.value) = 17
       /\ \A j, k \in 1..Len(r.value) : r.value[j].name = r.value[k].name => j = k
       /\ \A j \in ListEntries : log[j].outcome = r

C3_Witness ==
  /\ Len(log) = 3
  /\ log[1].method = "list_tools"
  /\ log[2].method = "call_tool" /\ log[2].name = "get_fly_examples"
  /\ log[3].method = "list_tools"
  /\ Len(log[3].outcome.value) = 17

\* C4: any two call_tool invocations with the same name in one run return
\* byte-identical text, whatever requests were handled between them.
C4_CallToolIdempotent ==
  \A i, j \in CallEntries :
    log[i].name = log[j].name => log[i].outcome = log[j].outcome

C4_Witness ==
  /\ Len(log) = 3
  /\ log[1].method = "call_tool" /\ log[3].method = "call_tool"
  /\ log[1].name = "get_gosling_commands" /\ log[3].name = "get_gosling_commands"
  /\ log[2].method = "list_tools"
  /\ TextOf(log[1].outcome) = TextOf(log[3].outcome)

C11_CatalogNamesUnique ==
  \A i, j \in 1..Len(TOOLS) : TOOLS[i].name = TOOLS[j].name => i = j

C11_Witness ==
  /\ Len(log) = MaxRequests
  /\ Len(TOOLS) = 17
  /\ Cardinality({TOOLS[i].name : i \in 1..Len(TOOLS)}) = 17

\* C19: call_tool and list_tools leave the catalog and the binding unchanged:
\* in every reachable state both equal their values at startup.
C19_HandlersLeaveGlobalsUnchanged ==
  /\ TOOLS = TOOLS_init
  /\ _DISPATCH = DISPATCH_init

C19_Witness ==
  /\ Len(log) = 3
  /\ log[1].method = "call_tool" /\ log[1].name = "get_database_schema"
  /\ log[2].method = "list_tools"
  /\ log[3].method = "call_tool" /\ log[3].name = "missing"
  /\ TOOLS = TOOLS_init
  /\ _DISPATCH = DISPATCH_init

(***************************************************************************)
(* A generic JSON parser (the grammar of RFC 8259 restricted to what the   *)
(* model's strings can hold: integers, and the escapes \" \\ \/ \n \r \t   *)
(* \f).  It is the reader a client applies to the text of a response.      *)
(***************************************************************************)
\* What parsing gives for a text that is not JSON.
JSONDecodeError == [type |-> "JSONDecodeError", val |-> 0]

CharAt(s, i) == IF i >= 1 /\ i <= Len(s) THEN SubSeq(s, i, i) ELSE ""

Parsed(v, p) == [ok |-> TRUE, val |-> v, pos |-> p]

NotParsed == [ok |-> FALSE, val |-> JSONDecodeError, pos |-> 0]

RECURSIVE skip_ws(_, _)
skip_ws(s, i) ==
  IF CharAt(s, i) \in {" ", "\n", "\t", "\r"} THEN skip_ws(s, i + 1) ELSE i

\* The number of consecutive backslashes that end at position p, from lo on.
RECURSIVE BackslashRun(_, _, _)
BackslashRun(s, lo, p) ==
  IF p >= lo /\ CharAt(s, p) = "\\" THEN 1 + BackslashRun(s, lo, p - 1) ELSE 0

\* The first position in i..j of a quote that is not escaped, or 0; lo is the
\* first position of the string's content.
RECURSIVE FirstClosingQuote(_, _, _, _)
FirstClosingQuote(s, lo, i, j) ==
  IF i > j THEN 0
  ELSE IF i = j
    THEN (IF CharAt(s, i) = "\"" /\ BackslashRun(s, lo, i - 1) % 2 = 0
            THEN i ELSE 0)
    ELSE LET h == (i + j) \div 2
             l == FirstClosingQuote(s, lo, i, h)
         IN IF l # 0 THEN l ELSE FirstClosingQuote(s, lo, h + 1, j)

unescape_char(c) ==
  CASE c = "n" -> "\n"
    [] c = "r" -> "\r"
    [] c = "t" -> "\t"
    [] c = "f" -> "\f"
    [] OTHER -> c

\* The content s[i..j] of a string with its escapes undone; i is never the
\* second character of an escape.
RECURSIVE unescape_range(_, _, _)
unescape_range(s, i, j) ==
  IF i > j THEN ""
  ELSE IF j - i < 16
    THEN (IF CharAt(s, i) = "\\"
            THEN unescape_char(CharAt(s, i + 1)) \o unescape_range(s, i + 2, j)
            ELSE CharAt(s, i) \o unescape_range(s, i + 1, j))
    ELSE LET m == (i + j) \div 2
             h == IF BackslashRun(s, i, m) % 2 = 1 THEN m + 1 ELSE m
         IN unescape_range(s, i, h) \o unescape_range(s, h + 1, j)

\* A string whose opening quote is at position i.
parse_string(s, i) ==
  LET end == FirstClosingQuote(s, i + 1, i + 1, Len(s))
  IN IF CharAt(s, i) # "\"" \/ end = 0 THEN NotParsed
     ELSE Parsed(unescape_range(s, i + 1, end - 1), end + 1)

IsDigit(c) == c \in {"0", "1", "2", "3", "4", "5", "6", "7", "8", "9"}

DigitValue(c) ==
  CASE c = "0" -> 0 [] c = "1" -> 1 [] c = "2" -> 2 [] c = "3" -> 3
    [] c = "4" -> 4 [] c = "5" -> 5 [] c = "6" -> 6 [] c = "7" -> 7
    [] c = "8" -> 8 [] c = "9" -> 9

\* The digits from position i on, read onto the value acc.
RECURSIVE parse_digits(_, _, _)
parse_digits(s, i, acc) ==
  IF IsDigit(CharAt(s, i))
    THEN parse_digits(s, i + 1, 10 * acc + DigitValue(CharAt(s, i)))
    ELSE Parsed(acc, i)

\* An integer at position i; a fraction or an exponent is not read.
parse_int(s, i) ==
  LET neg == CharAt(s, i) = "-"
      first == IF neg THEN i + 1 ELSE i
      r == parse_digits(s, first, 0)
  IN IF ~IsDigit(CharAt(s, first)) \/ CharAt(s, r.pos) \in {".", "e", "E"}
       THEN NotParsed
       ELSE Parsed(PyInt(IF neg THEN -r.val ELSE r.val), r.pos)

RECURSIVE parse_value(_, _)
RECURSIVE parse_elements(_, _, _)
RECURSIVE parse_members(_, _, _)

\* The elements of an array from position i on, after those in acc.
parse_elements(s, i, acc) ==
  LET v == parse_value(s, skip_ws(s, i))
      next == skip_ws(s, v.pos)
  IN IF ~v.ok THEN NotParsed
     ELSE IF CharAt(s, next) = "," THEN parse_elements(s, next + 1, Append(acc, v.val))
     ELSE IF CharAt(s, next) = "]" THEN Parsed(PyList(Append(acc, v.val)), next + 1)
     ELSE NotParsed

\* The members of an object from position i on, after those in acc.
parse_members(s, i, acc) ==
  LET k == parse_string(s, skip_ws(s, i))
      colon == skip_ws(s, k.pos)
      v == parse_value(s, skip_ws(s, colon + 1))
      next == skip_ws(s, v.pos)
  IN IF ~k.ok \/ CharAt(s, colon) # ":" THEN NotParsed
     ELSE IF ~v.ok THEN NotParsed
     ELSE IF CharAt(s, next) = ","
       THEN parse_members(s, next + 1, Append(acc, <<k.val, v.val>>))
     ELSE IF CharAt(s, next) = "}"
       THEN Parsed(PyDict(Append(acc, <<k.val, v.val>>)), next + 1)
     ELSE NotParsed

parse_value(s, i) ==
  LET c == CharAt(s, i)
  IN CASE c = "{" ->
            (IF CharAt(s, skip_ws(s, i + 1)) = "}"
               THEN Parsed(PyDict(<<>>), skip_ws(s, i + 1) + 1)
               ELSE parse_members(s, i + 1, <<>>))
       [] c = "[" ->
            (IF CharAt(s, skip_ws(s, i + 1)) = "]"
               THEN Parsed(PyList(<<>>), skip_ws(s, i + 1) + 1)
               ELSE parse_elements(s, i + 1, <<>>))
       [] c = "\"" ->
            (LET r == parse_string(s, i)
             IN IF r.ok THEN Parsed(PyStr(r.val), r.pos) ELSE NotParsed)
       [] c = "t" ->
            (IF i + 3 <= Len(s) /\ SubSeq(s, i, i + 3) = "true"
               THEN Parsed(PyBool(TRUE), i + 4) ELSE NotParsed)
       [] c = "f" ->
            (IF i + 4 <= Len(s) /\ SubSeq(s, i, i + 4) = "false"
               THEN Parsed(PyBool(FALSE), i + 5) ELSE NotParsed)
       [] c = "n" ->
            (IF i + 3 <= Len(s) /\ SubSeq(s, i, i + 3) = "null"
               THEN Parsed(PyNone, i + 4) ELSE NotParsed)
       [] c = "-" \/ IsDigit(c) -> parse_int(s, i)
       [] OTHER -> NotParsed

\* The value a whole text stands for, or JSONDecodeError.
json_loads(s) ==
  LET r == parse_value(s, skip_ws(s, 1))
  IN IF r.ok /\ skip_ws(s, r.pos) = Len(s) + 1 THEN r.val ELSE JSONDecodeError

\* json_loads of each text of ExpectedText.
LoadsExpected == [n \in DOMAIN ExpectedText |-> json_loads(ExpectedText[n])]

\* The value a client's parser reads from the text call_tool returned for name.
ParsedResponse(name, text) ==
  IF name \in DOMAIN ExpectedText /\ text = ExpectedText[name]
    THEN LoadsExpected[name]
    ELSE json_loads(text)

UnknownToolContent(name) == <<TextContent("text", "Unknown tool: " \o name)>>

SoloOutcome(method, name) ==
  IF method = "list_tools" THEN Return(TOOLS_init)
  ELSE IF name \in DOMAIN ExpectedText
    THEN Return(<<TextContent("text", ExpectedText[name])>>)
    ELSE Return(UnknownToolContent(name))

\* The answers instance k has given so far, in the order of its requests.
ResponsesOf(k) ==
  LET own == {i \in 1..Len(log) : log[i].inst = k /\ log[i].outcome # Pending}
  IN [i \in own |-> log[i].outcome]

\* C20: with several instances over the shared catalog and binding, every
\* instance's responses are those it would give running alone, under every
\* interleaving of the instances' steps.
C20_InstancesDoNotInterfere ==
  \A k \in Instances :
    \A i \in DOMAIN ResponsesOf(k) :
      ResponsesOf(k)[i] = SoloOutcome(log[i].method, log[i].name)

C20_Witness ==
  /\ Len(log) = 3
  /\ log[1].inst = 1 /\ log[1].name = "get_uglyfox_env_vars"
  /\ log[1].outcome = Pending
  /\ log[2].inst = 2 /\ log[2].name = "get_uglyfox_env_vars"
  /\ log[2].outcome = SoloOutcome("call_tool", "get_uglyfox_env_vars")
  /\ log[3].inst = 1 /\ log[3].method = "list_tools"

\* C21: the payload of every call_tool response is a list of exactly one
\* content block, and that block is of type text, both when the name resolves
\* to a dataset and when it is unknown.
C21_SingleTextBlock ==
  \A i \in CallEntries :
    /\ log[i].outcome.kind = "return"
    /\ Len(log[i].outcome.value) = 1
    /\ log[i].outcome.value[1].type = "text"

\* A run that answered a resolved name and an unknown name.
C21_Witness ==
  /\ C21_SingleTextBlock
  /\ \E i \in CallEntries : log[i].name \in DOMAIN _DISPATCH
  /\ \E i \in CallEntries : log[i].name \notin DOMAIN _DISPATCH

\* C24: every descriptor of the catalog, and so every descriptor a list_tools
\* response carries, declares an input schema that accepts no arguments: an
\* object schema whose properties mapping is empty and whose required list is
\* empty.
C24_AcceptsNoArguments(tool) ==
  LET schema == tool.inputSchema
  IN /\ schema.type = "dict"
     /\ {schema.val[k][1] : k \in 1..Len(schema.val)} =
          {"type", "properties", "required"}
     /\ \A k \in 1..Len(schema.val) :
          /\ schema.val[k][1] = "type" => schema.val[k][2] = PyStr("object")
          /\ schema.val[k][1] = "properties" => schema.val[k][2] = PyDict(<<>>)
          /\ schema.val[k][1] = "required" => schema.val[k][2] = PyList(<<>>)

\* C24, over the catalog and over every list_tools response.
C24_EmptyInputSchemas ==
  /\ \A i \in 1..Len(TOOLS) : C24_AcceptsNoArguments(TOOLS[i])
  /\ \A i \in ListEntries :
       \A k \in 1..Len(log[i].outcome.value) :
         C24_AcceptsNoArguments(log[i].outcome.value[k])

\* The whole catalog of seventeen descriptors was handed out.
C24_Witness ==
  /\ Len(TOOLS) = 17
  /\ \E i \in ListEntries : Len(log[i].outcome.value) = 17
  /\ C24_EmptyInputSchemas

\* The lookup of line 165 yields a value for the name (a dataset, not None).
Bound(name) == dict_get(_DISPATCH, name) # PyNone

\* Python's == on two dataset values of one type: mappings are equal when
\* they hold the same keys with equal values, in whatever order.
RECURSIVE py_eq(_, _)
py_eq(a, b) ==
  IF a.type # b.type THEN FALSE
  ELSE CASE a.type = "dict" ->
              /\ {a.val[i][1] : i \in 1..Len(a.val)} =
                   {b.val[j][1] : j \in 1..Len(b.val)}
              /\ \A i \in 1..Len(a.val), j \in 1..Len(b.val) :
                   a.val[i][1] = b.val[j][1] => py_eq(a.val[i][2], b.val[j][2])
         [] a.type = "list" ->
              /\ Len(a.val) = Len(b.val)
              /\ \A i \in 1..Len(a.val) : py_eq(a.val[i], b.val[i])
         [] OTHER -> a = b

C27_UnknownOnlyWhenNoValue ==
  \A i \in CallEntries :
    LET e == log[i]
        data == dict_get(_DISPATCH, e.name)
    IN /\ e.outcome.kind = "return"
       /\ (e.outcome = Return(UnknownToolContent(e.name))) <=> (data = PyNone)
       /\ data = PyList(<<>>) => TextOf(e.outcome) = "[]"
       /\ data = PyDict(<<>>) => TextOf(e.outcome) = "{}"
       /\ data = PyStr("") => TextOf(e.outcome) = "\"\""

\* A name bound to an empty list and a name bound to None were both called.
C27_Witness ==
  /\ \E i \in CallEntries :
       /\ log[i].name \in DOMAIN _DISPATCH
       /\ _DISPATCH[log[i].name] = PyList(<<>>)
       /\ TextOf(log[i].outcome) = "[]"
  /\ \E i \in CallEntries :
       /\ log[i].name \in DOMAIN _DISPATCH
       /\ _DISPATCH[log[i].name] = PyNone
       /\ TextOf(log[i].outcome) = "Unknown tool: " \o log[i].name

\* Whether text reads as the unknown-tool diagnostic for some name.
IsDiagnostic(text) ==
  /\ Len(text) >= 14
  /\ SubSeq(text, 1, 14) = "Unknown tool: "

\* C28: the text of a successful result is never the unknown-tool diagnostic
\* of any name, whatever the bound value (a string that reads like the
\* diagnostic included), and the text answered for a name without a value
\* always is: the text alone tells the two apart.
C28_DiagnosticDistinguishable ==
  \A i \in CallEntries :
    LET e == log[i]
    IN /\ e.outcome.kind = "return"
       /\ Bound(e.name) =>
            /\ ~IsDiagnostic(TextOf(e.outcome))
            /\ \A n \in Names \cup {"x"} :
                 TextOf(e.outcome) # "Unknown tool: " \o n
       /\ ~Bound(e.name) => IsDiagnostic(TextOf(e.outcome))

\* A dataset that is the string "Unknown tool: x" was served, quoted.
C28_Witness ==
  \E i \in CallEntries :
    /\ Bound(log[i].name)
    /\ _DISPATCH[log[i].name] = PyStr("Unknown tool: x")
    /\ TextOf(log[i].outcome) = "\"Unknown tool: x\""

\* C26: the result of call_tool depends only on the name: two calls under one
\* name return the same content whatever arguments each carried, and a call
\* with arguments that are not empty is answered exactly as one without (the
\* dataset's text, or the diagnostic naming the tool): the arguments are
\* neither rejected nor reported.
C26_ResultDependsOnNameOnly ==
  /\ \A i, j \in CallEntries :
       log[i].name = log[j].name => log[i].outcome = log[j].outcome
  /\ \A i \in CallEntries :
       LET e == log[i]
       IN /\ e.outcome.kind = "return"
          /\ e.name \in DOMAIN _DISPATCH =>
               TextOf(e.outcome) = ExpectedText[e.name]
          /\ e.name \notin DOMAIN _DISPATCH =>
               e.outcome = Return(UnknownToolContent(e.name))

\* One name was called without arguments and with a mapping that names
\* another tool, and both calls got the same content.
C26_Witness ==
  \E i, j \in CallEntries :
    /\ log[i].name = "get_uglyfox_env_vars"
    /\ log[j].name = "get_uglyfox_env_vars"
    /\ log[i].arguments = PyDict(<<>>)
    /\ log[j].arguments = PyDict(<< <<"name", PyStr("get_fly_examples")>> >>)
    /\ log[i].outcome = log[j].outcome
    /\ TextOf(log[j].outcome) = ExpectedText["get_uglyfox_env_vars"]

\* The items of the catalog after the caller operations of a log, in order.
RECURSIVE Replay(_, _)
Replay(items, entries) ==
  IF Len(entries) = 0 THEN items
  ELSE Replay(IF Head(entries).method = "mutate"
                THEN list_apply(Head(entries).name, items) ELSE items,
              Tail(entries))

\* C30: list_tools returns the catalog list itself, not a copy: every call
\* hands out the one list object TOOLS is bound to, so all lists handed out,
\* earlier or later, hold the same items as the catalog, and every operation a
\* caller made on a returned list has changed the catalog itself.
C30_ListToolsReturnsCatalogItself ==
  /\ \A i \in ListEntries : log[i].outcome = Return(CatalogObject)
  /\ \A i, j \in ListEntries :
       Deref(log[i].outcome.value) = Deref(log[j].outcome.value)
  /\ TOOLS = Replay(TOOLS_init, log)

\* A caller popped a descriptor from the list a call returned, and a later
\* call returned the catalog without that descriptor.
C30_Witness ==
  \E i, j, k \in 1..Len(log) :
    /\ i < j /\ j < k
    /\ log[i].method = "list_tools"
    /\ log[j].method = "mutate" /\ log[j].name = "pop"
    /\ log[k].method = "list_tools"
    /\ Len(Deref(log[k].outcome.value)) = Len(TOOLS_init) - 1
    /\ Deref(log[i].outcome.value) = Deref(log[k].outcome.value)
    /\ TOOLS # TOOLS_init

=============================================================================
